---- MODULE Spec2Model ----
(***************************************************************************)
(* Model of the pre-prd service worker (sw.js): the install, activate and  *)
(* fetch listeners over the Cache Storage of the origin.                   *)
(*                                                                         *)
(* Each listener is a promise chain; every awaited store or network        *)
(* operation is a step of its own, so the chains interleave as the event   *)
(* loop lets them.  The host dispatches install, then activate once the    *)
(* promise given to waitUntil has fulfilled, and fetch events once the     *)
(* worker is activated.  The invocations of the fetch listener are         *)
(* anonymous, so they are kept as a bag of their states.                   *)
(*                                                                         *)
(* The network can fail any manifest entry at install and any fetch at     *)
(* steady state.  The store can refuse the operations whose failure the    *)
(* design speaks of: caches.delete in activate, and caches.match,          *)
(* caches.open and cache.put of the request in the fetch listener.         *)
(***************************************************************************)
EXTENDS Integers, Sequences, FiniteSets, Bags, TLC

\* ------------------------------------------------------------------ bounds
\* number of fetch events the host dispatches to the worker
MaxHandlers == 2
\* number of distinct bodies the network can answer with
MaxBody == 2

\* --------------------------------------------------------------- constants
CACHE_NAME == "pre-prd-v1"
STATIC_CACHE == "pre-prd-static-v1"

\* namespaces a previous version of the worker left in the store
OLD_CACHE_NAME == "pre-prd-v0"
OLD_STATIC_CACHE == "pre-prd-static-v0"

\* A URL is its scheme, host and path; "/" and the other root-relative
\* manifest entries are resolved against the worker's origin.
Url(scheme, host, path) == [scheme |-> scheme, host |-> host, path |-> path]

ORIGIN == "origin"

ROOT == Url("https", ORIGIN, "/")

CORE_ASSETS ==
    << ROOT,
       Url("https", ORIGIN, "/assets/global.css"),
       Url("https", ORIGIN, "/assets/favicon.svg"),
       Url("https", ORIGIN, "/assets/manifest.json"),
       Url("https", "cdn.jsdelivr.net", "/npm/daisyui@4.12.10/dist/full.min.css"),
       Url("https", "cdn.tailwindcss.com", ""),
       Url("https", "unpkg.com", "/htmx.org@1.9.12"),
       Url("https", "fonts.googleapis.com", "/css2?family=Inter") >>

CoreAssetSet == { CORE_ASSETS[i] : i \in 1..Len(CORE_ASSETS) }

\* URLs the page requests at steady state: the root document, another
\* same-origin resource, a manifest entry of another origin, and a resource
\* of a browser extension
OTHER_URL == Url("https", ORIGIN, "/export")
CDN_URL == CORE_ASSETS[6]
EXT_URL == Url("chrome-extension", "abcdef", "/content.js")
RequestUrls == { ROOT, OTHER_URL, CDN_URL, EXT_URL }

AllUrls == CoreAssetSet \cup RequestUrls

SameOrigin(url) == url.scheme = "https" /\ url.host = ORIGIN

\* event.request.url.startsWith("chrome-extension://")
IsExtensionUrl(url) == url.scheme = "chrome-extension"

\* ---------------------------------------------------------------- responses
Response(status, type, body) == [status |-> status, type |-> type, body |-> body]

\* the value of a lookup that found nothing (undefined)
NoResponse == Response(0, "undefined", 0)

\* what fetch() can reject with
NetErrors == { "TypeError", "AbortError" }

\* the response a previous version stored
OldResponse == Response(200, "basic", 0)

\* the response cache.addAll stores for a manifest entry at install
InstallResponse(url) ==
    Response(200, IF SameOrigin(url) THEN "basic" ELSE "cors", 1)

\* ----------------------------------------------------------------- requests
Request(method, url, mode) == [method |-> method, url |-> url, mode |-> mode]

\* the requests the page issues
Requests ==
    { Request("GET", ROOT, "navigate"),
      Request("GET", OTHER_URL, "navigate"),
      Request("GET", OTHER_URL, "cors"),
      Request("POST", OTHER_URL, "cors"),
      Request("GET", CDN_URL, "cors"),
      Request("GET", EXT_URL, "no-cors") }

\* what the network can answer a request with: a same-origin response is
\* basic, one of another origin is not
NetResponses(req) ==
    IF SameOrigin(req.url)
    THEN { Response(200, "basic", b) : b \in 1..MaxBody }
           \cup { Response(404, "basic", 1) }
    ELSE { Response(200, "cors", 1), Response(0, "opaque", 1) }

\* -------------------------------------------------------------------- store
AllNames == { OLD_STATIC_CACHE, OLD_CACHE_NAME, STATIC_CACHE, CACHE_NAME }

\* a namespace maps the URLs it holds a record for to the stored responses
EmptyCache == [ u \in {} |-> NoResponse ]

\* cache.match(key) on one namespace: the record, or undefined
RecordIn(cache, url) == IF url \in DOMAIN cache THEN cache[url] ELSE NoResponse

\* contents of the namespaces found in the store when the worker is
\* registered: a static namespace holds the manifest, a dynamic one a
\* resource fetched at run time (the previous version's the root document,
\* this version's another page)
InitialContents(name) ==
    IF name \in { OLD_STATIC_CACHE, STATIC_CACHE }
    THEN [ u \in CoreAssetSet |-> OldResponse ]
    ELSE IF name = OLD_CACHE_NAME
    THEN [ u \in { ROOT } |-> OldResponse ]
    ELSE [ u \in { OTHER_URL } |-> OldResponse ]

\* the store found when the worker is registered, names in creation order:
\* a first registration, one over a previous version, one over a previous
\* version that this version had already replaced once, and one over this
\* version alone
InitialStores ==
    { << >>,
      << OLD_STATIC_CACHE, OLD_CACHE_NAME >>,
      << OLD_STATIC_CACHE, OLD_CACHE_NAME, STATIC_CACHE, CACHE_NAME >>,
      << STATIC_CACHE, CACHE_NAME >> }

Range(s) == { s[i] : i \in 1..Len(s) }

VARIABLES
    cacheNames,      \* caches.keys(): the namespace names, in creation order
    cacheData,       \* name -> the namespace's records, url -> response
    workerState,     \* the host's state of this worker instance
    install,         \* the install listener's chain
    activate,        \* the activate listener's chain
    handlers         \* the fetch listener's invocations: a bag of their states

vars == << cacheNames, cacheData, workerState, install, activate, handlers >>

\* the invocations of the fetch listener
Handlers == BagToSet(handlers)

\* the invocation r has moved on to r2
Step(bag, r, r2) == (bag (-) SetToBag({ r })) (+) SetToBag({ r2 })

\* ------------------------------------------------------ store operations
\* a lookup that consults the oldest namespace alone
MatchFromFirstOnly(names, data, url) ==
    IF names = << >> THEN NoResponse ELSE RecordIn(data[Head(names)], url)

\* caches.match(key): the first namespace, in creation order, holding a
\* record for the key answers; undefined when none does
RECURSIVE MatchFrom(_, _, _)
MatchFrom(names, data, url) ==
    IF names = << >> THEN NoResponse
    ELSE IF RecordIn(data[Head(names)], url) # NoResponse
         THEN RecordIn(data[Head(names)], url)
    ELSE MatchFrom(Tail(names), data, url)

CachesMatch(url) == MatchFrom(cacheNames, cacheData, url)

\* caches.open(name): the names after the namespace is created if absent
OpenedNames(names, name) ==
    IF name \in Range(names) THEN names ELSE Append(names, name)

\* caches.delete(name): the names without it
DeletedNames(names, name) == SelectSeq(names, LAMBDA n : n # name)

\* a put that keys the record by the root document instead of the request
PutRecordUnderRoot(data, name, url, resp) ==
    [ data EXCEPT ![name] =
        [ u \in DOMAIN @ \cup { ROOT } |-> IF u = ROOT THEN resp ELSE @[u] ] ]

\* a put that leaves the record a key already has
PutRecordKeepFirst(data, name, url, resp) ==
    [ data EXCEPT ![name] =
        [ u \in DOMAIN @ \cup { url } |->
            IF u \in DOMAIN @ THEN @[u] ELSE resp ] ]

\* cache.put(request, response) on the namespace: replaces the key's record
PutRecord(data, name, url, resp) ==
    [ data EXCEPT ![name] =
        [ u \in DOMAIN @ \cup { url } |-> IF u = url THEN resp ELSE @[u] ] ]

\* an addAll that stores the same-origin entries alone
AddAllRecordsSameOrigin(data, name) ==
    [ data EXCEPT ![name] =
        [ u \in DOMAIN @ \cup { a \in CoreAssetSet : SameOrigin(a) } |->
            IF u \in CoreAssetSet /\ SameOrigin(u) THEN InstallResponse(u)
            ELSE @[u] ] ]

\* cache.addAll(CORE_ASSETS) once every entry has been fetched
AddAllRecords(data, name) ==
    [ data EXCEPT ![name] =
        [ u \in DOMAIN @ \cup CoreAssetSet |->
            IF u \in CoreAssetSet THEN InstallResponse(u) ELSE @[u] ] ]

\* --------------------------------------------------------------- records
InstallIdle == [ pc |-> "idle", outcome |-> "none", skipWaiting |-> FALSE,
                 signal |-> "none" ]

ActivateIdle == [ pc |-> "idle", snapshot |-> {}, pending |-> {}, failed |-> {},
                  signal |-> "none", claimed |-> FALSE ]

NoResult == [ kind |-> "none", value |-> NoResponse, error |-> "" ]
Pending == [ kind |-> "pending", value |-> NoResponse, error |-> "" ]
Resolved(resp) == [ kind |-> "resolved", value |-> resp, error |-> "" ]
Rejected(err) == [ kind |-> "rejected", value |-> NoResponse, error |-> err ]

NoPut == [ name |-> "", url |-> ROOT, resp |-> NoResponse ]

NewHandler(req) ==
    [ pc |-> "event", request |-> req, lookup |-> "none",
      net |-> "none", netResponse |-> NoResponse, netError |-> "",
      result |-> NoResult, write |-> "none", put |-> NoPut,
      lookups |-> 0, fetches |-> 0, opens |-> 0, writes |-> 0,
      afterDelivery |-> FALSE, afterPut |-> FALSE ]

Init ==
    /\ cacheNames \in InitialStores
    /\ cacheData = [ n \in AllNames |->
                       IF n \in Range(cacheNames) THEN InitialContents(n)
                       ELSE EmptyCache ]
    /\ workerState = "parsed"
    /\ install = InstallIdle
    /\ activate = ActivateIdle
    /\ handlers = EmptyBag

\* an install listener that calls self.skipWaiting() before it caches
InstallEventSkipsFirst ==
    /\ workerState = "parsed"
    /\ workerState' = "installing"
    /\ install' = [ install EXCEPT !.pc = "open", !.signal = "pending",
                                   !.skipWaiting = TRUE ]
    /\ UNCHANGED << cacheNames, cacheData, activate, handlers >>

\* ---------------------------------------------------------------- install
\* the host dispatches "install": waitUntil(caches.open(STATIC_CACHE)...)
InstallEvent ==
    /\ workerState = "parsed"
    /\ workerState' = "installing"
    /\ install' = [ install EXCEPT !.pc = "open", !.signal = "pending" ]
    /\ UNCHANGED << cacheNames, cacheData, activate, handlers >>

\* caches.open(STATIC_CACHE) settles: the namespace exists, created if it
\* was absent, and cache.addAll(CORE_ASSETS) is called
InstallOpen ==
    /\ install.pc = "open"
    /\ cacheNames' = OpenedNames(cacheNames, STATIC_CACHE)
    /\ install' = [ install EXCEPT !.pc = "addAll" ]
    /\ UNCHANGED << cacheData, workerState, activate, handlers >>

\* cache.addAll(CORE_ASSETS) settles: `failed` are the entries whose fetch
\* failed; the batch is stored only when none did
InstallAddAll ==
    /\ install.pc = "addAll"
    /\ \E failed \in SUBSET CoreAssetSet :
         IF failed = {}
         THEN /\ cacheData' = IF STATIC_CACHE \in Range(cacheNames)
                              THEN AddAllRecords(cacheData, STATIC_CACHE)
                              ELSE cacheData
              /\ install' = [ install EXCEPT !.pc = "skipWaiting",
                                             !.outcome = "cached" ]
         ELSE /\ cacheData' = cacheData
              /\ install' = [ install EXCEPT !.pc = "catch",
                                             !.outcome = "fetchFailed" ]
    /\ UNCHANGED << cacheNames, workerState, activate, handlers >>

\* .then(() => self.skipWaiting()): the chain fulfils
InstallSkipWaiting ==
    /\ install.pc = "skipWaiting"
    /\ install' = [ install EXCEPT !.pc = "done", !.skipWaiting = TRUE,
                                   !.signal = "fulfilled" ]
    /\ UNCHANGED << cacheNames, cacheData, workerState, activate, handlers >>

\* .catch((error) => console.log(...)): the handler returns undefined, so
\* the promise given to waitUntil fulfils
InstallCatch ==
    /\ install.pc = "catch"
    /\ install' = [ install EXCEPT !.pc = "done", !.signal = "fulfilled" ]
    /\ UNCHANGED << cacheNames, cacheData, workerState, activate, handlers >>

\* the host, once the promise given to waitUntil has settled
InstallSettled ==
    /\ workerState = "installing"
    /\ install.signal \in { "fulfilled", "rejected" }
    /\ workerState' = IF install.signal = "fulfilled" THEN "installed"
                      ELSE "redundant"
    /\ UNCHANGED << cacheNames, cacheData, install, activate, handlers >>

\* --------------------------------------------------------------- activate
\* a filter that takes every dynamic namespace for the current one
IsStaleStaticOnly(cacheName) ==
    cacheName \notin { CACHE_NAME, STATIC_CACHE, OLD_CACHE_NAME }

\* a filter that takes the dynamic namespaces of other versions alone
IsStaleDynamicOnly(cacheName) == cacheName = OLD_CACHE_NAME

\* a filter that keeps the static namespace of this version alone
IsStaleButStatic(cacheName) == cacheName # STATIC_CACHE

\* cacheName !== CACHE_NAME && cacheName !== STATIC_CACHE
IsStale(cacheName) == cacheName # CACHE_NAME /\ cacheName # STATIC_CACHE

\* the host dispatches "activate": waitUntil(caches.keys()...)
ActivateEvent ==
    /\ workerState = "installed"
    /\ workerState' = "activating"
    /\ activate' = [ activate EXCEPT !.pc = "keys", !.signal = "pending" ]
    /\ UNCHANGED << cacheNames, cacheData, install, handlers >>

\* caches.keys() settles: caches.delete is called for every stale name of
\* the enumeration and Promise.all waits for all of them
ActivateKeys ==
    /\ activate.pc = "keys"
    /\ activate' = [ activate EXCEPT
           !.pc = "deleting",
           !.snapshot = Range(cacheNames),
           !.pending = { n \in Range(cacheNames) : IsStale(n) } ]
    /\ UNCHANGED << cacheNames, cacheData, workerState, install, handlers >>

\* one caches.delete(cacheName) settles; a rejected one rejects Promise.all
\* at once, which skips clients.claim() and rejects the chain
ActivateDelete ==
    /\ activate.pending # {}
    /\ \E n \in activate.pending, ok \in BOOLEAN :
         IF ok
         THEN /\ cacheNames' = DeletedNames(cacheNames, n)
              /\ cacheData' = [ cacheData EXCEPT ![n] = EmptyCache ]
              /\ activate' = [ activate EXCEPT !.pending = @ \ { n } ]
         ELSE /\ UNCHANGED << cacheNames, cacheData >>
              /\ activate' = [ activate EXCEPT
                     !.pending = @ \ { n },
                     !.failed = @ \cup { n },
                     !.pc = "done",
                     !.signal = "rejected" ]
    /\ UNCHANGED << workerState, install, handlers >>

\* a claim that does not wait for the deletions
ActivateClaimWithoutWaiting ==
    /\ activate.pc = "deleting"
    /\ activate' = [ activate EXCEPT !.pc = "done", !.claimed = TRUE,
                                     !.signal = "fulfilled" ]
    /\ UNCHANGED << cacheNames, cacheData, workerState, install, handlers >>

\* Promise.all fulfilled: .then(() => self.clients.claim())
ActivateClaim ==
    /\ activate.pc = "deleting"
    /\ activate.pending = {}
    /\ activate' = [ activate EXCEPT !.pc = "done", !.claimed = TRUE,
                                     !.signal = "fulfilled" ]
    /\ UNCHANGED << cacheNames, cacheData, workerState, install, handlers >>

\* the host, once the promise given to waitUntil has settled: the worker
\* becomes the active one whichever way it settled
ActivateSettled ==
    /\ workerState = "activating"
    /\ activate.signal \in { "fulfilled", "rejected" }
    /\ workerState' = "activated"
    /\ UNCHANGED << cacheNames, cacheData, install, activate, handlers >>

\* ------------------------------------------------------------------ fetch
\* an eligibility check that leaves the response type out
NotCacheableStatusOnly(response) ==
    \/ response = NoResponse
    \/ response.status # 200

\* !response || response.status !== 200 || response.type !== "basic"
NotCacheable(response) ==
    \/ response = NoResponse
    \/ response.status # 200
    \/ response.type # "basic"

\* an invocation that delivered a cacheable network response for the url
Delivered(r, url) ==
    /\ r.request.url = url
    /\ r.net = "response"
    /\ r.result.kind = "resolved"
    /\ ~NotCacheable(r.netResponse)

\* an invocation whose cache.put for the url has completed
PutDone(r, url) ==
    /\ r.write = "done"
    /\ r.put.url = url

\* a filter that lets the extension's requests through to respondWith
SkippedNonGetOnly(req) == req.method # "GET"

\* the requests the listener returns on before respondWith
Skipped(req) == req.method # "GET" \/ IsExtensionUrl(req.url)

\* a listener that calls fetch(event.request) along with the lookup
FetchEventEagerFetch ==
    /\ workerState = "activated"
    /\ BagCardinality(handlers) < MaxHandlers
    /\ \E req \in Requests :
         LET r == NewHandler(req)
         IN  handlers' = handlers (+) SetToBag({
               IF Skipped(req)
               THEN [ r EXCEPT !.pc = "passthrough" ]
               ELSE [ r EXCEPT
                        !.pc = "match", !.result = Pending,
                        !.lookups = @ + 1, !.fetches = @ + 1,
                        !.afterDelivery =
                            \E g \in Handlers : Delivered(g, req.url) ] })
    /\ UNCHANGED << cacheNames, cacheData, workerState, install, activate >>

\* the host dispatches "fetch" to the active worker; a request that is not
\* GET, or is the extension's, returns before respondWith; any other one
\* calls respondWith(caches.match(event.request)...)
FetchEvent ==
    /\ workerState = "activated"
    /\ BagCardinality(handlers) < MaxHandlers
    /\ \E req \in Requests :
         LET r == NewHandler(req)
         IN  handlers' = handlers (+) SetToBag({
               IF Skipped(req)
               THEN [ r EXCEPT !.pc = "passthrough" ]
               ELSE [ r EXCEPT
                        !.pc = "match", !.result = Pending,
                        !.lookups = @ + 1,
                        !.afterDelivery =
                            \E g \in Handlers : Delivered(g, req.url) ] })
    /\ UNCHANGED << cacheNames, cacheData, workerState, install, activate >>

\* caches.match(event.request) settles: a stored response is returned as it
\* is; on undefined fetch(event.request) is called; a lookup the store
\* refuses rejects the chain
CacheMatch(r) ==
    /\ r.pc = "match"
    /\ \E ok \in BOOLEAN :
         LET cachedResponse == CachesMatch(r.request.url)
             seen == \E g \in Handlers : PutDone(g, r.request.url)
         IN  handlers' = Step(handlers, r,
               IF ~ok
               THEN [ r EXCEPT !.pc = "done", !.lookup = "failed",
                               !.result = Rejected("StoreError") ]
               ELSE IF cachedResponse # NoResponse
               THEN [ r EXCEPT !.pc = "done", !.lookup = "hit",
                               !.afterPut = seen,
                               !.result = Resolved(cachedResponse) ]
               ELSE [ r EXCEPT !.pc = "fetch", !.lookup = "miss",
                               !.afterPut = seen,
                               !.fetches = @ + 1 ])
    /\ UNCHANGED << cacheNames, cacheData, workerState, install, activate >>

\* a fulfilment branch that returns the response only after the write
NetworkRespondAwaitsWrite(r) ==
    /\ r.pc = "fetch"
    /\ \E response \in NetResponses(r.request) :
         handlers' = Step(handlers, r,
           IF NotCacheable(response)
           THEN [ r EXCEPT !.pc = "done", !.net = "response",
                           !.netResponse = response,
                           !.result = Resolved(response) ]
           ELSE [ r EXCEPT !.pc = "open", !.net = "response",
                           !.netResponse = response,
                           !.write = "pending", !.opens = @ + 1 ])
    /\ UNCHANGED << cacheNames, cacheData, workerState, install, activate >>

\* fetch(event.request) fulfils: a response that is not cacheable is
\* returned as it is; a cacheable one is cloned, caches.open(CACHE_NAME) is
\* called without being awaited, and the response is returned
NetworkRespond(r) ==
    /\ r.pc = "fetch"
    /\ \E response \in NetResponses(r.request) :
         handlers' = Step(handlers, r,
           IF NotCacheable(response)
           THEN [ r EXCEPT !.pc = "done", !.net = "response",
                           !.netResponse = response,
                           !.result = Resolved(response) ]
           ELSE [ r EXCEPT !.pc = "open", !.net = "response",
                           !.netResponse = response,
                           !.result = Resolved(response),
                           !.write = "pending", !.opens = @ + 1 ])
    /\ UNCHANGED << cacheNames, cacheData, workerState, install, activate >>

\* a failure branch that falls back to the root document for any request
NetworkRejectAlwaysFallback(r) ==
    /\ r.pc = "fetch"
    /\ \E error \in NetErrors :
         handlers' = Step(handlers, r,
           [ r EXCEPT !.pc = "fallback", !.net = "rejected",
                      !.netError = error ])
    /\ UNCHANGED << cacheNames, cacheData, workerState, install, activate >>

\* fetch(event.request) rejects: .catch returns caches.match("/") for a
\* navigation and rethrows the error for anything else
NetworkReject(r) ==
    /\ r.pc = "fetch"
    /\ \E error \in NetErrors :
         handlers' = Step(handlers, r,
           IF r.request.mode = "navigate"
           THEN [ r EXCEPT !.pc = "fallback", !.net = "rejected",
                           !.netError = error ]
           ELSE [ r EXCEPT !.pc = "done", !.net = "rejected",
                           !.netError = error,
                           !.result = Rejected(error) ])
    /\ UNCHANGED << cacheNames, cacheData, workerState, install, activate >>

\* caches.match("/") settles: the chain resolves with what it yields, a
\* stored response or undefined
FallbackMatch(r) ==
    /\ r.pc = "fallback"
    /\ handlers' = Step(handlers, r,
           [ r EXCEPT !.pc = "done", !.result = Resolved(CachesMatch(ROOT)) ])
    /\ UNCHANGED << cacheNames, cacheData, workerState, install, activate >>

\* a write-through that opens the previous version's dynamic namespace
CacheOpenOldName(r) ==
    /\ r.pc = "open"
    /\ cacheNames' = OpenedNames(cacheNames, OLD_CACHE_NAME)
    /\ handlers' = Step(handlers, r, [ r EXCEPT !.pc = "put" ])
    /\ UNCHANGED << cacheData, workerState, install, activate >>

\* caches.open(CACHE_NAME) settles, after the response was returned: the
\* namespace is created if absent; a refused open drops the write
CacheOpen(r) ==
    /\ r.pc = "open"
    /\ \E ok \in BOOLEAN :
         IF ok
         THEN /\ cacheNames' = OpenedNames(cacheNames, CACHE_NAME)
              /\ handlers' = Step(handlers, r, [ r EXCEPT !.pc = "put" ])
         ELSE /\ cacheNames' = cacheNames
              /\ handlers' = Step(handlers, r,
                     [ r EXCEPT !.pc = "done", !.write = "failed" ])
    /\ UNCHANGED << cacheData, workerState, install, activate >>

\* cache.put(event.request, responseToCache) settles: the record replaces
\* the key's one in the namespace; a refused put stores nothing
CachePut(r) ==
    /\ r.pc = "put"
    /\ \E ok \in BOOLEAN :
         IF ok
         THEN /\ cacheData' = IF CACHE_NAME \in Range(cacheNames)
                              THEN PutRecord(cacheData, CACHE_NAME,
                                             r.request.url, r.netResponse)
                              ELSE cacheData
              /\ handlers' = Step(handlers, r, [ r EXCEPT
                     !.pc = "done", !.write = "done", !.writes = @ + 1,
                     !.put = [ name |-> CACHE_NAME, url |-> r.request.url,
                               resp |-> r.netResponse ] ])
         ELSE /\ cacheData' = cacheData
              /\ handlers' = Step(handlers, r,
                     [ r EXCEPT !.pc = "done", !.write = "failed" ])
    /\ UNCHANGED << cacheNames, workerState, install, activate >>

Next ==
    \/ InstallEvent
    \/ InstallOpen
    \/ InstallAddAll
    \/ InstallSkipWaiting
    \/ InstallCatch
    \/ InstallSettled
    \/ ActivateEvent
    \/ ActivateKeys
    \/ ActivateDelete
    \/ ActivateClaim
    \/ ActivateSettled
    \/ FetchEvent
    \/ \E r \in Handlers : CacheMatch(r)
    \/ \E r \in Handlers : NetworkRespond(r)
    \/ \E r \in Handlers : NetworkReject(r)
    \/ \E r \in Handlers : FallbackMatch(r)
    \/ \E r \in Handlers : CacheOpen(r)
    \/ \E r \in Handlers : CachePut(r)

Spec == Init /\ [][Next]_vars

\* ================================================================= claims
\* the responses stored for the url in any namespace of the store
StoredFor(url) ==
    { RecordIn(cacheData[n], url) : n \in Range(cacheNames) } \ { NoResponse }

\* in this step the invocation r moved on / the invocation r2 came to be
Moved(r) == CopiesIn(r, handlers') < CopiesIn(r, handlers)
Arrived(r2) == CopiesIn(r2, handlers') > CopiesIn(r2, handlers)

StoreUnchanged == cacheNames' = cacheNames /\ cacheData' = cacheData

\* what holds of an invocation whose lookup found a stored response
C1_HitAnswered ==
    \A r \in Handlers :
       r.lookup = "hit" =>
         /\ r.pc = "done"
         /\ r.request.method = "GET" /\ ~IsExtensionUrl(r.request.url)
         /\ r.result.kind = "resolved" /\ r.result.value # NoResponse
         /\ r.net = "none" /\ r.fetches = 0
         /\ r.write = "none" /\ r.opens = 0 /\ r.writes = 0

\* the step on which a lookup with a stored match is answered
C1_HitStep ==
    \A r \in Handlers :
       (r.pc = "match" /\ StoredFor(r.request.url) # {} /\ Moved(r)) =>
         /\ StoreUnchanged
         /\ \E r2 \in BagToSet(handlers') :
              /\ Arrived(r2)
              /\ r2.request = r.request
              /\ \/ r2.lookup = "failed"
                 \/ /\ r2.lookup = "hit"
                    /\ r2.result.kind = "resolved"
                    /\ r2.result.value \in StoredFor(r.request.url)

\* C1: a GET request whose identity has a stored match when the lookup is
\* answered is answered with a response stored for it, and the invocation
\* issues no network fetch and makes no cache write.
C1_CacheHitIsExclusiveAnswer == [](C1_HitAnswered) /\ [][C1_HitStep]_vars

C1_Witness ==
    \E r \in Handlers :
       /\ r.lookup = "hit"
       /\ r.result.value \in StoredFor(r.request.url)
       /\ Cardinality(Range(cacheNames)) > 1

\* what holds of an invocation for a request the listener skips
C2_SkippedUntouched ==
    \A r \in Handlers :
       (r.request.method # "GET" \/ r.request.url.scheme = "chrome-extension") =>
         /\ r.pc = "passthrough"
         /\ r.result = NoResult
         /\ r.lookup = "none" /\ r.lookups = 0
         /\ r.net = "none" /\ r.fetches = 0
         /\ r.write = "none" /\ r.opens = 0 /\ r.writes = 0 /\ r.put = NoPut

\* the step on which a skipped request is dispatched
C2_SkippedStep ==
    \A r2 \in BagToSet(handlers') :
       (Arrived(r2) /\ r2.pc = "passthrough") => StoreUnchanged

\* C2: a request that is not GET, or whose URL is the extension's, is
\* returned on without respondWith: no lookup, no fetch, no write, and the
\* store is as it was.
C2_NonGetPassesThrough == [](C2_SkippedUntouched) /\ [][C2_SkippedStep]_vars

C2_Witness ==
    /\ \E r \in Handlers : r.pc = "passthrough" /\ r.request.method = "POST"
    /\ \E r \in Handlers : r.pc = "passthrough" /\ r.request.url = EXT_URL

\* C3: once install has settled with every manifest entry fetched, every
\* entry of CORE_ASSETS is retrievable from the static namespace.
C3_ManifestRetrievable ==
    (install.outcome = "cached" /\ install.signal = "fulfilled") =>
       /\ STATIC_CACHE \in Range(cacheNames)
       /\ \A i \in 1..Len(CORE_ASSETS) :
            /\ CORE_ASSETS[i] \in DOMAIN cacheData[STATIC_CACHE]
            /\ cacheData[STATIC_CACHE][CORE_ASSETS[i]].status = 200

C3_Witness ==
    /\ install.outcome = "cached"
    /\ install.signal = "fulfilled"
    /\ workerState = "activated"
    /\ handlers # EmptyBag

\* C4: when a manifest entry fails to fetch, the promise given to
\* waitUntil reports failure and the instance never goes on to be
\* installed, activating or active.
C4_FailedInstallReported ==
    (install.outcome = "fetchFailed" /\ install.pc = "done") =>
       /\ install.signal = "rejected"
       /\ workerState \notin { "installed", "activating", "activated" }

\* C5: once activation has completed, no namespace other than the current
\* static and dynamic ones is in the store, and no record of the previous
\* version's dynamic namespace is left.
C5_NoStaleNamespaceLeft ==
    activate.signal = "fulfilled" =>
       /\ Range(cacheNames) \subseteq { CACHE_NAME, STATIC_CACHE }
       /\ DOMAIN cacheData[OLD_CACHE_NAME] = {}

C5_Witness ==
    /\ activate.signal = "fulfilled"
    /\ OLD_CACHE_NAME \in activate.snapshot
    /\ OLD_STATIC_CACHE \in activate.snapshot
    /\ workerState = "activated"
\* C6 (as stated): once a cacheable network response has been returned to
\* the caller, an identical request dispatched afterwards is served from the
\* store without a network call, whatever the interleaving.
C6_ImmediateRepeatServedFromStore ==
    \A r \in Handlers :
       (r.afterDelivery /\ r.lookup \in { "hit", "miss" }) =>
          (r.lookup = "hit" /\ r.fetches = 0)

\* C6 (amended): the record is in the dynamic namespace once the un-awaited
\* cache.put has completed, and stays there; an identical request whose
\* lookup is answered after that is served from the store without a network
\* call.
C6_PersistedOncePutCompletes ==
    /\ \A r \in Handlers :
          r.write = "done" =>
            /\ CACHE_NAME \in Range(cacheNames)
            /\ r.request.url \in DOMAIN cacheData[CACHE_NAME]
    /\ \A r \in Handlers :
          r.afterPut =>
            /\ r.lookup = "hit"
            /\ r.pc = "done"
            /\ r.result.kind = "resolved" /\ r.result.value # NoResponse
            /\ r.fetches = 0 /\ r.net = "none"

C6_Witness ==
    \E r \in Handlers, g \in Handlers :
       /\ g.write = "done"
       /\ r.request.url = g.request.url
       /\ r.afterPut
       /\ r.lookup = "hit"
       /\ r.result.value = g.netResponse

\* C7: a navigation request whose lookup misses and whose network fetch
\* rejects is resolved with the stored root document, never with an error
\* or an empty response.
C7_NavigationFallsBackToRoot ==
    \A r \in Handlers :
       (r.request.mode = "navigate" /\ r.lookup = "miss"
          /\ r.net = "rejected" /\ r.pc = "done") =>
          /\ r.result.kind = "resolved"
          /\ r.result.value # NoResponse
          /\ r.result.value.status = 200

\* what holds of a sub-resource invocation whose network fetch rejected
C8_FailurePropagated ==
    \A r \in Handlers :
       (r.request.mode # "navigate" /\ r.lookup = "miss"
          /\ r.net = "rejected") =>
          /\ r.pc = "done"
          /\ r.netError \in NetErrors
          /\ r.result.kind = "rejected"
          /\ r.result.error = r.netError
          /\ r.result.value = NoResponse
          /\ r.write = "none" /\ r.opens = 0 /\ r.writes = 0

\* the step on which the network fetch of a sub-resource rejects
C8_FailureStep ==
    \A r \in Handlers :
       (r.pc = "fetch" /\ r.request.mode # "navigate" /\ Moved(r)
          /\ \E r2 \in BagToSet(handlers') :
                Arrived(r2) /\ r2.net = "rejected") => StoreUnchanged

\* C8: a request that is not a navigation, whose lookup misses and whose
\* network fetch rejects, is rejected with the error fetch rejected with;
\* no response is substituted and the store is left as it was.
C8_SubresourceFailurePropagates ==
    [](C8_FailurePropagated) /\ [][C8_FailureStep]_vars

C8_Witness ==
    \E r \in Handlers :
       /\ r.request.mode # "navigate"
       /\ r.lookup = "miss"
       /\ r.net = "rejected"
       /\ r.result = Rejected("AbortError")

\* what holds of an invocation that wrote, or that got an ineligible response
C9_WritesEligibleOnly ==
    \A r \in Handlers :
       /\ r.writes > 0 =>
            /\ r.put = [ name |-> CACHE_NAME, url |-> r.request.url,
                         resp |-> r.netResponse ]
            /\ r.request.method = "GET"
            /\ r.netResponse.status = 200
            /\ r.netResponse.type = "basic"
       /\ (r.net = "response"
             /\ (r.netResponse.status # 200 \/ r.netResponse.type # "basic")) =>
            /\ r.pc = "done"
            /\ r.result = Resolved(r.netResponse)
            /\ r.write = "none" /\ r.opens = 0 /\ r.writes = 0
            /\ r.put = NoPut

\* what a step of the fetch listener may change in the store's records
C9_WriteStep ==
    \A r \in Handlers :
       Moved(r) =>
         \A n \in AllNames, u \in AllUrls :
            RecordIn(cacheData'[n], u) # RecordIn(cacheData[n], u) =>
              /\ r.pc = "put"
              /\ n = CACHE_NAME
              /\ u = r.request.url
              /\ r.request.method = "GET"
              /\ RecordIn(cacheData'[n], u) = r.netResponse
              /\ RecordIn(cacheData'[n], u).status = 200
              /\ RecordIn(cacheData'[n], u).type = "basic"

\* C9: every record the fetch listener writes goes to the dynamic
\* namespace, under the GET request it was fetched for, and is a response
\* of status 200 and type basic; a network response that is not one is
\* returned as it is and nothing is written for it.
C9_OnlyEligibleResponsesWritten ==
    [](C9_WritesEligibleOnly) /\ [][C9_WriteStep]_vars

C9_Witness ==
    /\ \E r \in Handlers :
          /\ r.writes > 0
          /\ RecordIn(cacheData[CACHE_NAME], r.request.url) = r.netResponse
    /\ \E r \in Handlers :
          r.net = "response" /\ r.netResponse.type = "cors" /\ r.pc = "done"

\* a step of the fetch listener leaves the set of namespace names as it was
C10_FetchStep ==
    handlers' # handlers => Range(cacheNames') = Range(cacheNames)

C10_NamesStep ==
    /\ handlers' # handlers =>
         /\ Range(cacheNames) \subseteq Range(cacheNames')
         /\ Range(cacheNames') \ Range(cacheNames) \subseteq { CACHE_NAME }
    /\ (handlers' = handlers /\ Range(cacheNames') # Range(cacheNames)) =>
         \/ /\ install' # install
            /\ Range(cacheNames') = Range(cacheNames) \cup { STATIC_CACHE }
         \/ /\ activate' # activate
            /\ Range(cacheNames') \subseteq Range(cacheNames)
            /\ (Range(cacheNames) \ Range(cacheNames'))
                  \cap { CACHE_NAME, STATIC_CACHE } = {}

C11_BumpActivated ==
    /\ { OLD_STATIC_CACHE, OLD_CACHE_NAME } \subseteq activate.snapshot
    /\ CACHE_NAME \notin activate.snapshot
    /\ install.outcome = "cached"
    /\ activate.signal = "fulfilled"
    /\ handlers = EmptyBag

C12_CallsOfOneRequest ==
    \A r \in Handlers :
       /\ r.lookups <= 1 /\ r.fetches <= 1 /\ r.opens <= 1 /\ r.writes <= 1
       /\ r.pc = "match" => (r.lookup = "none" /\ r.fetches = 0)
       /\ r.fetches > 0 => (r.lookups = 1 /\ r.lookup = "miss")
       /\ r.net # "none" => r.fetches = 1
       /\ r.opens > 0 => r.net = "response"
       /\ r.writes > 0 => (r.opens = 1 /\ r.write = "done")

\* the one step that starts a fetch is the step on which the lookup is
\* answered with a miss
C12_FetchStartStep ==
    \A r2 \in BagToSet(handlers') :
       (Arrived(r2) /\ r2.fetches > 0) =>
         \E r \in Handlers :
            /\ Moved(r)
            /\ r.request = r2.request
            /\ \/ r.fetches = r2.fetches
               \/ /\ r.pc = "match" /\ r.fetches = 0
                  /\ r2.lookup = "miss" /\ r2.fetches = 1

\* C12: for one intercepted request the cache lookup completes before any
\* network fetch is started, at most one network fetch is issued, and at
\* most one cache write is made.
C12_LookupThenOneFetchOneWrite ==
    [](C12_CallsOfOneRequest) /\ [][C12_FetchStartStep]_vars

C12_Witness ==
    \E r \in Handlers :
       /\ r.pc = "done"
       /\ r.lookups = 1 /\ r.lookup = "miss"
       /\ r.fetches = 1 /\ r.writes = 1
       /\ RecordIn(cacheData[CACHE_NAME], r.request.url) = r.netResponse

\* C13 (as stated): a rejected caches.delete of one stale namespace is
\* skipped: the activate chain does not reject, and once the deletions have
\* settled every other stale namespace is gone, clients.claim() has been
\* called and the chain has fulfilled.
C13_FailedDeleteIsNonFatal ==
    activate.failed # {} =>
      /\ activate.signal # "rejected"
      /\ (activate.pending = {} /\ workerState = "activated") =>
           /\ activate.claimed
           /\ activate.signal = "fulfilled"
           /\ \A n \in activate.snapshot \ activate.failed :
                 IsStale(n) => n \notin Range(cacheNames)

\* C14 (as stated): a lookup the store refuses counts as a miss: it is not
\* propagated as the failure of the request, and the request is fetched
\* from the network, whose result is what the caller gets.
C14_FailedLookupFallsThroughToNetwork ==
    \A r \in Handlers :
       r.lookup = "failed" =>
         /\ ~(r.result.kind = "rejected" /\ r.result.error = "StoreError")
         /\ r.fetches = 1
         /\ r.pc = "done" =>
              \/ r.net = "response" /\ r.result = Resolved(r.netResponse)
              \/ r.net = "rejected"

\* an invocation whose network response is cacheable has resolved with it
\* whatever has become of the write: pending, refused at the open, refused
\* at the put, or done
C15_DeliveredWhateverTheWrite ==
    \A r \in Handlers :
       r.write # "none" =>
         /\ r.net = "response" /\ ~NotCacheable(r.netResponse)
         /\ r.result = Resolved(r.netResponse)
         /\ r.pc \in { "open", "put", "done" }
         /\ r.netError = ""

\* a step of the write leaves the result of the invocation alone
C15_WriteStep ==
    \A r \in Handlers :
       (r.pc \in { "open", "put" } /\ Moved(r)) =>
         \E r2 \in BagToSet(handlers') :
            /\ Arrived(r2)
            /\ r2.request = r.request
            /\ r2.result = r.result
            /\ r2.net = r.net /\ r2.netResponse = r.netResponse
            /\ r2.pc \in { "put", "done" }

\* C15: the delivery of a cacheable network response does not depend on
\* the store write: when caches.open(CACHE_NAME) or cache.put fails, or
\* never completes, the invocation has still resolved with the network
\* response; the failed write neither fails the request nor runs the
\* network-failure branch.
C15_DeliveryIndependentOfWrite ==
    [](C15_DeliveredWhateverTheWrite) /\ [][C15_WriteStep]_vars

C15_Witness ==
    /\ \E r \in Handlers :
          /\ r.pc = "done" /\ r.write = "failed" /\ r.writes = 0
          /\ r.request.mode = "navigate"
          /\ r.result = Resolved(r.netResponse)
          /\ RecordIn(cacheData[CACHE_NAME], r.request.url) = NoResponse
    /\ \E r \in Handlers :
          r.pc = "open" /\ r.write = "pending"

\* the invocations that have written a record under the url
C16_Writers(url) ==
    { r \in Handlers : r.write = "done" /\ r.put.url = url }

\* the record of an identity that has been written is one of the responses
\* written under it
C16_RecordIsAWrittenOne ==
    \A r \in Handlers :
       r.write = "done" =>
         /\ r.put.url = r.request.url /\ r.put.name = CACHE_NAME
         /\ r.put.url \in DOMAIN cacheData[CACHE_NAME]
         /\ cacheData[CACHE_NAME][r.put.url]
               \in { g.put.resp : g \in C16_Writers(r.put.url) }

\* the step on which a put completes leaves the response of that put as the
\* record of its identity, and every other record as it was
C16_PutCompletesStep ==
    \A r \in Handlers, r2 \in BagToSet(handlers') :
       (r.pc = "put" /\ Moved(r) /\ Arrived(r2) /\ r2.write = "done") =>
         /\ DOMAIN cacheData'[CACHE_NAME] =
               DOMAIN cacheData[CACHE_NAME] \cup { r.request.url }
         /\ cacheData'[CACHE_NAME][r.request.url] = r.netResponse
         /\ \A u \in DOMAIN cacheData[CACHE_NAME] \ { r.request.url } :
               cacheData'[CACHE_NAME][u] = cacheData[CACHE_NAME][u]

\* C16: two invocations for one uncached identity may both miss and both
\* fetch; the dynamic namespace then holds one record for the identity, the
\* response of the put that completed last.
C16_LastWriteWins ==
    [](C16_RecordIsAWrittenOne) /\ [][C16_PutCompletesStep]_vars

C16_Witness ==
    \E r, g \in Handlers :
       /\ r.request = g.request
       /\ r.lookup = "miss" /\ g.lookup = "miss"
       /\ r.fetches = 1 /\ g.fetches = 1
       /\ r.write = "done" /\ g.write = "done"
       /\ ~r.afterPut /\ ~g.afterPut
       /\ r.netResponse # g.netResponse
       /\ cacheData[CACHE_NAME][r.request.url] = g.netResponse

\* skipWaiting has been called only with the whole manifest stored, and it
\* has been called once an install that stored the manifest has finished
C17_SkipWaitingIffCached ==
    /\ install.skipWaiting =>
         /\ install.outcome = "cached"
         /\ STATIC_CACHE \in Range(cacheNames)
         /\ \A i \in 1..Len(CORE_ASSETS) :
               RecordIn(cacheData[STATIC_CACHE], CORE_ASSETS[i])
                  = InstallResponse(CORE_ASSETS[i])
    /\ install.outcome = "fetchFailed" => ~install.skipWaiting
    /\ install.pc = "done" =>
         (install.skipWaiting <=> install.outcome = "cached")

\* the step that calls skipWaiting is taken after addAll has fulfilled
C17_SkipWaitingStep ==
    (~install.skipWaiting /\ install'.skipWaiting) =>
       /\ install.pc = "skipWaiting" /\ install.outcome = "cached"
       /\ DOMAIN cacheData[STATIC_CACHE] = CoreAssetSet
       /\ StoreUnchanged

\* C17: the install listener calls skipWaiting if and only if every
\* manifest entry was stored, and only after the static namespace has been
\* populated in full; on a failed install it is never called.
C17_SkipWaitingOnlyAfterFullInstall ==
    [](C17_SkipWaitingIffCached) /\ [][C17_SkipWaitingStep]_vars

C17_Witness ==
    /\ install.pc = "done" /\ install.skipWaiting
    /\ install.outcome = "cached"
    /\ DOMAIN cacheData[STATIC_CACHE] = CoreAssetSet
    /\ workerState = "installed"

\* with clients claimed, no deletion is awaited, none was refused, and no
\* stale namespace that was enumerated is left
C18_ClaimedAfterDeletions ==
    activate.claimed =>
      /\ activate.pending = {}
      /\ activate.failed = {}
      /\ \A n \in activate.snapshot : IsStale(n) => n \notin Range(cacheNames)

\* the step that claims the clients is taken with every deletion settled
C18_ClaimStep ==
    (~activate.claimed /\ activate'.claimed) =>
       /\ activate.pc = "deleting" /\ activate.pending = {}
       /\ StoreUnchanged

\* C18: the activate listener calls clients.claim() only after the deletion
\* of every stale namespace has settled; in no state are clients claimed
\* while a stale namespace it enumerated is still awaiting deletion.
C18_ClaimOnlyAfterDeletionsSettle ==
    [](C18_ClaimedAfterDeletions) /\ [][C18_ClaimStep]_vars

C18_Witness ==
    /\ activate.claimed
    /\ { OLD_STATIC_CACHE, OLD_CACHE_NAME } \subseteq activate.snapshot
    /\ { STATIC_CACHE, CACHE_NAME } \subseteq activate.snapshot
    /\ Range(cacheNames) = { STATIC_CACHE, CACHE_NAME }

\* neither current namespace is ever awaiting deletion
C19_CurrentNeverPending ==
    /\ activate.pending \cap { CACHE_NAME, STATIC_CACHE } = {}
    /\ activate.failed \cap { CACHE_NAME, STATIC_CACHE } = {}

\* a step of the activate listener leaves the two current namespaces in
\* the enumeration if they were in it, and their records as they were
C19_ActivateStep ==
    activate' # activate =>
       \A n \in { CACHE_NAME, STATIC_CACHE } :
          /\ n \in Range(cacheNames') <=> n \in Range(cacheNames)
          /\ cacheData'[n] = cacheData[n]

\* C19: activation leaves the current static namespace and the current
\* dynamic namespace, and every record in them, as they were: it never
\* deletes a namespace named CACHE_NAME or STATIC_CACHE, also while fetch
\* invocations are writing into the dynamic namespace.
C19_ActivationKeepsCurrentNamespaces ==
    [](C19_CurrentNeverPending) /\ [][C19_ActivateStep]_vars

C19_Witness ==
    /\ activate.pending # {}
    /\ activate.failed # {}
    /\ STATIC_CACHE \in activate.snapshot
    /\ DOMAIN cacheData[STATIC_CACHE] = CoreAssetSet
    /\ \E r \in Handlers :
          /\ r.write = "done"
          /\ cacheData[CACHE_NAME][r.request.url] = r.netResponse

====
